---- MODULE Spec2Model ----
(***************************************************************************)
(* Model of olympic_data.py: a Dash dashboard over a table of Olympic      *)
(* athlete records.  The state is the loaded table df, the last value of   *)
(* each control (year-slider, sport-dropdown, hoverData of the choropleth) *)
(* and the figure each of the three graphs displays.  Each control event   *)
(* runs, to completion, the callbacks that declare the control as Input.   *)
(***************************************************************************)
EXTENDS Integers, Sequences, FiniteSets

VARIABLES
    df,             \* the table read from the CSV (a sequence of rows)
    year,           \* value of 'year-slider'
    sport,          \* value of 'sport-dropdown' (None when cleared)
    hoverData,      \* hoverData of 'choropleth-map': None or the hovered location
    team_stats_df,  \* the aggregate computed by the last call of update_map
    map_fig,        \* figure displayed by 'choropleth-map'
    line_fig,       \* figure displayed by 'line-chart'
    sunburst_fig,   \* figure displayed by 'sunburst-chart'
    evaluated,      \* callbacks run by the last control event
    raised          \* callbacks among them that raised an exception

vars == <<df, year, sport, hoverData, team_stats_df, map_fig, line_fig,
          sunburst_fig, evaluated, raised>>

\* Largest number of rows of a table the model loads.
MaxRows == 4

\* Python's None (a cleared dropdown, no hover yet), the missing value of a
\* column of strings, and the float NaN (0 / 0).
None == "None"
NaN == "NaN"
FloatNaN == [num |-> 0, den |-> 0]

\* Key values in the order pandas' groupby sorts them (lexicographic).
TeamNames == <<"France", "Greece">>
SexValues == <<"F", "M">>
MedalValues == <<"Bronze", "Gold", "Silver">>

Row(y, se, sp, t, sx, m) ==
    [year |-> y, season |-> se, sport |-> sp, team |-> t, sex |-> sx, medal |-> m]

\* Rows the CSV may hold; a medal of NaN is a row without medal.
SampleRows ==
    << Row(1906, "Summer", "Tennis",   "France", "F", "Gold"),
       Row(1906, "Summer", "Tennis",   "France", "M", NaN),
       Row(1906, "Summer", "Tennis",   "Greece", "F", NaN),
       Row(1906, "Summer", "Swimming", "Greece", "M", "Silver"),
       Row(1906, "Summer", "Tennis",   "Greece", "F", NaN),
       Row(1908, "Summer", "Tennis",   "France", "F", NaN),
       Row(1908, "Summer", "Swimming", "France", "M", "Bronze"),
       Row(1908, "Summer", "Swimming", "Greece", "M", "Bronze"),
       Row(1908, "Summer", "Tennis",   "Greece", "F", "Gold"),
       Row(1908, "Winter", "Tennis",   "France", "F", "Gold"),
       Row(1907, "Winter", "Skating",  "Greece", "M", NaN) >>

RECURSIVE PickRows(_, _)
PickRows(S, i) ==
    IF i > Len(SampleRows) THEN <<>>
    ELSE (IF i \in S THEN <<SampleRows[i]>> ELSE <<>>) \o PickRows(S, i + 1)

\* The tables pd.read_csv may return: the rows of SampleRows at any at most
\* MaxRows positions, in the file's order.
Tables ==
    { PickRows(S, 1) : S \in { T \in SUBSET (1 .. Len(SampleRows)) : Cardinality(T) <= MaxRows } }

----------------------------------------------------------------------------
\* Filter derivation (module level, run once at startup).

summer_data(d) == SelectSeq(d, LAMBDA r : r.season = "Summer")

valid_years(d) == { summer_data(d)[i].year : i \in DOMAIN summer_data(d) }

valid_sports(d) == { summer_data(d)[i].sport : i \in DOMAIN summer_data(d) }

SetMin(S) == CHOOSE x \in S : \A y \in S : x <= y

SetMax(S) == CHOOSE x \in S : \A y \in S : y <= x

\* The values the slider offers: every integer from min to max, step 1.
slider_values(d) == SetMin(valid_years(d)) .. SetMax(valid_years(d))

\* The values the dropdown offers: a sport of valid_sports, or cleared.
dropdown_values(d) == valid_sports(d) \cup {None}

----------------------------------------------------------------------------
\* Aggregator.

RECURSIVE Gcd(_, _)
Gcd(a, b) == IF b = 0 THEN a ELSE Gcd(b, a % b)

\* The ratio female / total, not scaled to a percentage.
percentage_wrong(female, total) ==
    IF total = 0 THEN FloatNaN
    ELSE [num |-> female \div Gcd(female, total), den |-> total \div Gcd(female, total)]

\* The float female / total * 100, kept exactly as a fraction in lowest terms;
\* 0 / 0 is NaN.  For the counts of the model two such floats are equal, or
\* ordered, exactly when the fractions are.
percentage(female, total) ==
    IF total = 0 THEN FloatNaN
    ELSE [num |-> (female * 100) \div Gcd(female * 100, total),
          den |-> total \div Gcd(female * 100, total)]

\* groupby('team') over every team name, observed or not.
groupby_team_unobserved(d) == TeamNames

\* groupby('team'): the teams observed in d, sorted.
groupby_team(d) == SelectSeq(TeamNames, LAMBDA t : \E i \in DOMAIN d : d[i].team = t)

\* calculate_team_stats without the filter on the selected sport.
calculate_team_stats_nosport(d, selected_year, selected_sport) ==
    LET df_filtered == SelectSeq(d, LAMBDA r : r.year = selected_year /\ r.season = "Summer")
        groups == groupby_team(df_filtered)
        stat(t) ==
            LET g == SelectSeq(df_filtered, LAMBDA r : r.team = t)
                female == Len(SelectSeq(g, LAMBDA r : r.sex = "F"))
            IN  [team |-> t, total_athletes |-> Len(g), female_athletes |-> female,
                 female_percentage |-> percentage(female, Len(g))]
    IN  [i \in 1 .. Len(groups) |-> stat(groups[i])]

\* calculate_team_stats: one row for each team of the filtered rows, sorted by
\* team, with its number of athletes, of female athletes, and the percentage.
calculate_team_stats(d, selected_year, selected_sport) ==
    LET by_year == SelectSeq(d, LAMBDA r : r.year = selected_year /\ r.season = "Summer")
        df_filtered ==
            IF selected_sport # None
            THEN SelectSeq(by_year, LAMBDA r : r.sport = selected_sport)
            ELSE by_year
        groups == groupby_team(df_filtered)
        stat(t) ==
            LET g == SelectSeq(df_filtered, LAMBDA r : r.team = t)
                female == Len(SelectSeq(g, LAMBDA r : r.sex = "F"))
            IN  [team |-> t, total_athletes |-> Len(g), female_athletes |-> female,
                 female_percentage |-> percentage(female, Len(g))]
    IN  [i \in 1 .. Len(groups) |-> stat(groups[i])]

----------------------------------------------------------------------------
\* Choropleth builder.

\* Raised by idxmax when there is no value to pick: position 0 is no row.
ValueError == 0

AsFloat(n) == [num |-> n, den |-> 1]

\* a <= b for two floats that are not NaN.
Leq(a, b) == a.num * b.den <= b.num * a.den

\* Series.idxmax taking the last of several maxima.
idxmax_last(s) ==
    LET valid == { i \in DOMAIN s : s[i] # FloatNaN }
    IN  IF valid = {} THEN ValueError
        ELSE CHOOSE i \in valid :
                 /\ \A j \in valid : Leq(s[j], s[i])
                 /\ \A j \in valid : Leq(s[i], s[j]) => j <= i

\* Series.idxmax: the first position holding the largest value, NaN skipped;
\* ValueError on a series without values.
idxmax(s) ==
    LET valid == { i \in DOMAIN s : s[i] # FloatNaN }
    IN  IF valid = {} THEN ValueError
        ELSE CHOOSE i \in valid :
                 /\ \A j \in valid : Leq(s[j], s[i])
                 /\ \A j \in valid : Leq(s[i], s[j]) => i <= j

\* update_map: the figure it returns, or raised when an idxmax raises.
update_map(d, selected_year, selected_sport) ==
    LET stats == calculate_team_stats(d, selected_year, selected_sport)
        max_female == idxmax([i \in DOMAIN stats |-> AsFloat(stats[i].female_athletes)])
        max_female_percentage == idxmax([i \in DOMAIN stats |-> stats[i].female_percentage])
    IN  IF max_female = ValueError \/ max_female_percentage = ValueError
        THEN [raised |-> TRUE]
        ELSE [raised |-> FALSE,
              figure |-> [data |-> stats,
                          max_female |-> stats[max_female].team,
                          max_female_percentage |-> stats[max_female_percentage].team,
                          title_year |-> selected_year,
                          title_sport |-> selected_sport]]

----------------------------------------------------------------------------
\* Line-chart builder.

RECURSIVE SortedSeq(_)
SortedSeq(S) ==
    IF S = {} THEN <<>> ELSE <<SetMin(S)>> \o SortedSeq(S \ {SetMin(S)})

\* groupby(['year', 'sex']).size().reset_index(name='count'): one row for
\* each observed (year, sex), sorted by year, then sex.
groupby_year_sex(d) ==
    LET years == SortedSeq({ d[i].year : i \in DOMAIN d })
        n == Len(SexValues)
        keys == [k \in 1 .. Len(years) * n |->
                    [year |-> years[((k - 1) \div n) + 1], sex |-> SexValues[((k - 1) % n) + 1]]]
        size(key) == Len(SelectSeq(d, LAMBDA r : r.year = key.year /\ r.sex = key.sex))
        rows == [k \in DOMAIN keys |->
                    [year |-> keys[k].year, sex |-> keys[k].sex, count |-> size(keys[k])]]
    IN  SelectSeq(rows, LAMBDA g : g.count > 0)

\* One trace of the line chart: the (x, y) points of one gender.
scatter(athlete_counts, gender) ==
    LET gender_data == SelectSeq(athlete_counts, LAMBDA g : g.sex = gender)
    IN  [k \in DOMAIN gender_data |-> [x |-> gender_data[k].year, y |-> gender_data[k].count]]

\* update_line_chart that also keeps only the rows of the selected year.
update_line_chart_by_year(d, hover_data, selected_year, selected_sport) ==
    LET hovered_team == hover_data
        summer == SelectSeq(d, LAMBDA r : r.season = "Summer" /\ r.year = selected_year)
        by_team ==
            IF hovered_team # None
            THEN SelectSeq(summer, LAMBDA r : r.team = hovered_team) ELSE summer
        df_filtered ==
            IF selected_sport # None
            THEN SelectSeq(by_team, LAMBDA r : r.sport = selected_sport) ELSE by_team
        athlete_counts == groupby_year_sex(df_filtered)
    IN  [Female |-> scatter(athlete_counts, "F"),
         Male |-> scatter(athlete_counts, "M"),
         vline |-> selected_year,
         title_team |-> hovered_team]

\* update_line_chart that ignores the hover target.
update_line_chart_global(d, hover_data, selected_year, selected_sport) ==
    LET summer == SelectSeq(d, LAMBDA r : r.season = "Summer")
        df_filtered ==
            IF selected_sport # None
            THEN SelectSeq(summer, LAMBDA r : r.sport = selected_sport) ELSE summer
        athlete_counts == groupby_year_sex(df_filtered)
    IN  [Female |-> scatter(athlete_counts, "F"),
         Male |-> scatter(athlete_counts, "M"),
         vline |-> selected_year,
         title_team |-> hover_data]

update_line_chart(d, hover_data, selected_year, selected_sport) ==
    LET hovered_team == hover_data
        summer == SelectSeq(d, LAMBDA r : r.season = "Summer")
        by_team ==
            IF hovered_team # None
            THEN SelectSeq(summer, LAMBDA r : r.team = hovered_team) ELSE summer
        df_filtered ==
            IF selected_sport # None
            THEN SelectSeq(by_team, LAMBDA r : r.sport = selected_sport) ELSE by_team
        athlete_counts == groupby_year_sex(df_filtered)
    IN  [Female |-> scatter(athlete_counts, "F"),
         Male |-> scatter(athlete_counts, "M"),
         vline |-> selected_year,
         title_team |-> hovered_team]

----------------------------------------------------------------------------
\* Sunburst builder.

\* groupby(['sex', 'medal']) keeping the rows whose medal is NaN as a group.
groupby_sex_medal_keepna(d) ==
    LET medals == MedalValues \o <<NaN>>
        n == Len(medals)
        keys == [k \in 1 .. Len(SexValues) * n |->
                    [sex |-> SexValues[((k - 1) \div n) + 1], medal |-> medals[((k - 1) % n) + 1]]]
        size(key) == Len(SelectSeq(d, LAMBDA r : r.sex = key.sex /\ r.medal = key.medal))
        rows == [k \in DOMAIN keys |->
                    [sex |-> keys[k].sex, medal |-> keys[k].medal, count |-> size(keys[k])]]
    IN  SelectSeq(rows, LAMBDA g : g.count > 0)

\* groupby(['sex', 'medal']).size().reset_index(name='count'): one row for
\* each observed (sex, medal), sorted; a row whose medal is NaN is in no group.
groupby_sex_medal(d) ==
    LET n == Len(MedalValues)
        keys == [k \in 1 .. Len(SexValues) * n |->
                    [sex |-> SexValues[((k - 1) \div n) + 1], medal |-> MedalValues[((k - 1) % n) + 1]]]
        size(key) == Len(SelectSeq(d, LAMBDA r : r.sex = key.sex /\ r.medal = key.medal))
        rows == [k \in DOMAIN keys |->
                    [sex |-> keys[k].sex, medal |-> keys[k].medal, count |-> size(keys[k])]]
    IN  SelectSeq(rows, LAMBDA g : g.count > 0)

update_sunburst(d, hover_data, selected_year, selected_sport) ==
    LET hovered_team == hover_data
        by_year == SelectSeq(d, LAMBDA r : r.year = selected_year /\ r.season = "Summer")
        by_team ==
            IF hovered_team # None
            THEN SelectSeq(by_year, LAMBDA r : r.team = hovered_team) ELSE by_year
        df_filtered ==
            IF selected_sport # None
            THEN SelectSeq(by_team, LAMBDA r : r.sport = selected_sport) ELSE by_team
    IN  [medal_counts |-> groupby_sex_medal(df_filtered),
         title_year |-> selected_year,
         title_team |-> hovered_team]

----------------------------------------------------------------------------
\* Reactive binding: the callbacks each control is an Input of.

YearSportCallbacks == {"update_map", "update_line_chart", "update_sunburst"}

HoverCallbacks == {"update_line_chart", "update_sunburst"}

\* Boolean indexing that would drop the unselected rows from the frame itself.
df_after_filter_inplace(d, df_filtered) == df_filtered

\* The frame a callback filters, after the callback: df[mask] is a new frame
\* bound to a local name, and df keeps every row.
df_after_filter(d, df_filtered) == d

\* The callbacks in cbs run on the new values of the controls.  A callback
\* that raises leaves the figure of its graph as it was.
Render(cbs) ==
    /\ evaluated' = cbs
    /\ df' = df_after_filter(df, SelectSeq(df, LAMBDA r : r.year = year' /\ r.season = "Summer"))
    /\ IF "update_map" \in cbs
       THEN LET m == update_map(df, year', sport')
            IN  /\ team_stats_df' = calculate_team_stats(df, year', sport')
                /\ map_fig' = IF m.raised THEN map_fig ELSE m.figure
                /\ raised' = IF m.raised THEN {"update_map"} ELSE {}
       ELSE /\ UNCHANGED <<team_stats_df, map_fig>>
            /\ raised' = {}
    /\ line_fig' =
           IF "update_line_chart" \in cbs
           THEN update_line_chart(df, hoverData', year', sport') ELSE line_fig
    /\ sunburst_fig' =
           IF "update_sunburst" \in cbs
           THEN update_sunburst(df, hoverData', year', sport') ELSE sunburst_fig

\* Startup: the table is read, the slider stands at the first valid year, the
\* dropdown is cleared, nothing is hovered, and every callback has run once.
Init ==
    /\ df \in Tables
    /\ valid_years(df) # {}
    /\ year = SetMin(valid_years(df))
    /\ sport = None
    /\ hoverData = None
    /\ team_stats_df = calculate_team_stats(df, year, sport)
    /\ map_fig = update_map(df, year, sport).figure
    /\ line_fig = update_line_chart(df, hoverData, year, sport)
    /\ sunburst_fig = update_sunburst(df, hoverData, year, sport)
    /\ evaluated = YearSportCallbacks
    /\ raised = {}

\* The user moves the year slider.
SetYear ==
    \E y \in slider_values(df) \ {year} :
        /\ year' = y
        /\ UNCHANGED <<sport, hoverData>>
        /\ Render(YearSportCallbacks)

\* The user selects a sport, or clears the dropdown.
SetSport ==
    \E s \in dropdown_values(df) \ {sport} :
        /\ sport' = s
        /\ UNCHANGED <<year, hoverData>>
        /\ Render(YearSportCallbacks)

\* The user hovers another location drawn on the choropleth.
Hover ==
    \E k \in DOMAIN map_fig.data :
        /\ map_fig.data[k].team # hoverData
        /\ hoverData' = map_fig.data[k].team
        /\ UNCHANGED <<year, sport>>
        /\ Render(HoverCallbacks)

Next == SetYear \/ SetSport \/ Hover

Spec == Init /\ [][Next]_vars

----------------------------------------------------------------------------
\* What the charts must show, stated on the rows of df directly.

\* The positions of the Summer rows of df.
SummerRows == { i \in DOMAIN df : df[i].season = "Summer" }

\* The positions of the Summer rows of year y and, when sp is a sport, of sport sp.
Matching(y, sp) ==
    { i \in SummerRows : df[i].year = y /\ (sp = None \/ df[i].sport = sp) }

\* The positions among rows of the rows of team t, all of them when t is None.
OfTeam(rows, t) == { i \in rows : t = None \/ df[i].team = t }

\* The positions among rows of the rows of sport sp, all of them when sp is None.
OfSport(rows, sp) == { i \in rows : sp = None \/ df[i].sport = sp }

RECURSIVE SumOf(_, _)
SumOf(s, field) == IF s = <<>> THEN 0 ELSE Head(s)[field] + SumOf(Tail(s), field)

\* series holds, in increasing year, exactly the years in which rows has a
\* row of sex sx, each with the number of those rows.
SeriesCounts(series, sx, rows) ==
    /\ \A k \in 1 .. Len(series) - 1 : series[k].x < series[k + 1].x
    /\ \A k \in DOMAIN series :
           /\ series[k].y = Cardinality({ i \in rows : df[i].year = series[k].x /\ df[i].sex = sx })
           /\ series[k].y > 0
    /\ \A i \in rows : df[i].sex = sx => \E k \in DOMAIN series : series[k].x = df[i].year

\* medal_counts holds one node for each (sex, medal) that rows has a row of,
\* with the number of those rows, and no other node.
MedalCounts(medal_counts, rows) ==
    /\ \A k \in DOMAIN medal_counts :
           /\ medal_counts[k].medal # NaN
           /\ medal_counts[k].count > 0
           /\ medal_counts[k].count =
                  Cardinality({ i \in rows : /\ df[i].sex = medal_counts[k].sex
                                            /\ df[i].medal = medal_counts[k].medal })
           /\ \A j \in DOMAIN medal_counts :
                  (medal_counts[j].sex = medal_counts[k].sex
                       /\ medal_counts[j].medal = medal_counts[k].medal) => j = k
    /\ \A i \in rows :
           df[i].medal # NaN =>
               \E k \in DOMAIN medal_counts :
                   medal_counts[k].sex = df[i].sex /\ medal_counts[k].medal = df[i].medal

----------------------------------------------------------------------------
\* C1: when no Summer row matches the selected year and sport, no chart
\* builder raises and each of the three charts is empty.
C1_NoMatchYieldsEmptyCharts ==
    Matching(year, sport) = {} =>
        /\ raised = {}
        /\ map_fig.data = <<>>
        /\ map_fig.title_year = year /\ map_fig.title_sport = sport
        /\ sunburst_fig.medal_counts = <<>>
        /\ line_fig.Female = <<>> /\ line_fig.Male = <<>>

\* C2: an event that changes only the hovered team does not run update_map
\* and leaves the choropleth as it was, and redraws the line chart and the
\* sunburst from the rows of the hovered team alone.
C2_HoverRedrawsLineAndSunburstOnly ==
    [][(year' = year /\ sport' = sport /\ hoverData' # hoverData) =>
          /\ map_fig' = map_fig
          /\ "update_map" \notin evaluated'
          /\ {"update_line_chart", "update_sunburst"} \subseteq evaluated'
          /\ SeriesCounts(line_fig'.Female, "F",
                          { i \in OfSport(SummerRows, sport) : df[i].team = hoverData' })
          /\ SeriesCounts(line_fig'.Male, "M",
                          { i \in OfSport(SummerRows, sport) : df[i].team = hoverData' })
          /\ MedalCounts(sunburst_fig'.medal_counts,
                         { i \in Matching(year, sport) : df[i].team = hoverData' })]_vars

C2_Witness ==
    /\ evaluated = HoverCallbacks
    /\ hoverData # None
    /\ Len(line_fig.Female) > 0
    /\ Len(sunburst_fig.medal_counts) > 0
    /\ \E i \in SummerRows : df[i].team # hoverData
    /\ line_fig # update_line_chart(df, None, year, sport)

\* C3: the total_athletes of the aggregate add up to the number of Summer
\* rows of the selected year and, when a sport is selected, of that sport; each
\* team's total is its female athletes plus its other athletes.
C3_TotalsAddUpToMatchingRows ==
    /\ SumOf(team_stats_df, "total_athletes") = Cardinality(Matching(year, sport))
    /\ \A k \in DOMAIN team_stats_df :
           team_stats_df[k].total_athletes =
               team_stats_df[k].female_athletes
                   + Cardinality({ i \in Matching(year, sport) :
                                     df[i].team = team_stats_df[k].team /\ df[i].sex # "F" })

C3_Witness ==
    /\ sport # None
    /\ Len(team_stats_df) = 2
    /\ SumOf(team_stats_df, "total_athletes") >= 3
    /\ Cardinality(Matching(year, None)) > Cardinality(Matching(year, sport))

\* C4: after every control event each displayed chart is its builder applied
\* to the current year, sport and hover target, and the event ran exactly the
\* callbacks of its control.
C4_DisplayedChartsAreCurrent ==
    /\ evaluated \in {YearSportCallbacks, HoverCallbacks}
    /\ ~update_map(df, year, sport).raised
    /\ map_fig = update_map(df, year, sport).figure
    /\ line_fig = update_line_chart(df, hoverData, year, sport)
    /\ sunburst_fig = update_sunburst(df, hoverData, year, sport)

\* C5: in the aggregate, female_percentage is female_athletes /
\* total_athletes x 100 and lies between 0 and 100, or is NaN when
\* total_athletes is 0.
C5_PercentageInRange ==
    \A k \in DOMAIN team_stats_df :
        LET r == team_stats_df[k]
            p == r.female_percentage
        IN  IF r.total_athletes = 0 THEN p = FloatNaN
            ELSE /\ p.den > 0
                 /\ p.num * r.total_athletes = 100 * r.female_athletes * p.den
                 /\ 0 <= p.num /\ p.num <= 100 * p.den

C5_Witness ==
    \E k \in DOMAIN team_stats_df :
        /\ team_stats_df[k].total_athletes = 3
        /\ team_stats_df[k].female_athletes = 2
        /\ team_stats_df[k].female_percentage = [num |-> 200, den |-> 3]

\* C6: no control event changes the loaded table, and calculate_team_stats
\* gives, for each year and sport, the same aggregate after the event as before.
C6_TableAndAggregatesUnchanged ==
    [][/\ df' = df
       /\ \A y \in slider_values(df) : \A s \in dropdown_values(df) :
              calculate_team_stats(df', y, s) = calculate_team_stats(df, y, s)]_vars

C6_Witness ==
    /\ evaluated = HoverCallbacks
    /\ hoverData # None
    /\ sport # None
    /\ year # SetMin(valid_years(df))
    /\ Len(df) = MaxRows
    /\ team_stats_df = calculate_team_stats(df, year, sport)
    /\ Len(team_stats_df) > 0

\* C7 as stated: the Female and Male series count, per year, the Summer rows
\* of that sex, of the hovered team when one is hovered, whatever the sport.
C7_SeriesCountAllSports ==
    /\ SeriesCounts(line_fig.Female, "F", OfTeam(SummerRows, hoverData))
    /\ SeriesCounts(line_fig.Male, "M", OfTeam(SummerRows, hoverData))

\* C7 amended: the Female and Male series count, per year, the Summer rows of
\* that sex, of the hovered team when one is hovered and of the selected sport
\* when one is selected; the selected year sets the marker and changes no series.
C7_SeriesCountSelectedSport ==
    /\ SeriesCounts(line_fig.Female, "F", OfSport(OfTeam(SummerRows, hoverData), sport))
    /\ SeriesCounts(line_fig.Male, "M", OfSport(OfTeam(SummerRows, hoverData), sport))
    /\ line_fig.vline = year
    /\ \A y \in slider_values(df) :
           /\ update_line_chart(df, hoverData, y, sport).Female = line_fig.Female
           /\ update_line_chart(df, hoverData, y, sport).Male = line_fig.Male

C7_Witness ==
    /\ hoverData # None
    /\ sport # None
    /\ Len(line_fig.Female) = 2
    /\ Len(line_fig.Male) > 0
    /\ Matching(year, sport) = {}

\* C8: the team annotated for the highest number of female athletes has at
\* least as many as every team of the aggregate and is the first with that
\* many; likewise the team annotated for the highest percentage.
C8_AnnotatedTeamsAreFirstMaxima ==
    LET data == map_fig.data
    IN  /\ \E i \in DOMAIN data :
               /\ data[i].team = map_fig.max_female
               /\ \A j \in DOMAIN data : data[j].female_athletes <= data[i].female_athletes
               /\ \A j \in 1 .. i - 1 : data[j].female_athletes < data[i].female_athletes
        /\ \E i \in DOMAIN data :
               /\ data[i].team = map_fig.max_female_percentage
               /\ \A j \in DOMAIN data :
                      Leq(data[j].female_percentage, data[i].female_percentage)
               /\ \A j \in 1 .. i - 1 :
                      ~Leq(data[i].female_percentage, data[j].female_percentage)

C8_Witness ==
    /\ Len(map_fig.data) = 2
    /\ map_fig.data[1].female_athletes = map_fig.data[2].female_athletes
    /\ map_fig.data[1].female_percentage = map_fig.data[2].female_percentage
    /\ map_fig.data[1].female_athletes > 0
    /\ map_fig.max_female = map_fig.data[1].team
    /\ map_fig.max_female_percentage = map_fig.data[1].team

\* C9: each node of the sunburst counts the rows of its sex and medal among
\* the Summer rows of the selected year, of the selected sport when one is
\* selected and of the hovered team when one is hovered; rows without medal
\* are in no node, so the counts add up to the matching rows that carry a medal.
C9_SunburstCountsMedalRows ==
    LET rows == OfTeam(Matching(year, sport), hoverData)
    IN  /\ MedalCounts(sunburst_fig.medal_counts, rows)
        /\ SumOf(sunburst_fig.medal_counts, "count")
               = Cardinality({ i \in rows : df[i].medal \in {"Gold", "Silver", "Bronze"} })

C9_Witness ==
    LET rows == OfTeam(Matching(year, sport), hoverData)
    IN  /\ hoverData # None
        /\ sport # None
        /\ Len(sunburst_fig.medal_counts) > 0
        /\ \E i \in rows : df[i].medal = NaN
        /\ Matching(year, None) # rows

\* C10: every team of the aggregate has at least one athlete and between 0
\* and total_athletes female athletes, and a team without a matching Summer
\* row is not in the aggregate.
C10_TeamsOfAggregateHaveRows ==
    /\ \A k \in DOMAIN team_stats_df :
           /\ team_stats_df[k].total_athletes >= 1
           /\ 0 <= team_stats_df[k].female_athletes
           /\ team_stats_df[k].female_athletes <= team_stats_df[k].total_athletes
    /\ \A k \in DOMAIN TeamNames :
           (\A i \in Matching(year, sport) : df[i].team # TeamNames[k]) =>
               \A j \in DOMAIN team_stats_df : team_stats_df[j].team # TeamNames[k]

C10_Witness ==
    /\ Len(team_stats_df) = 1
    /\ team_stats_df[1].total_athletes >= 2
    /\ team_stats_df[1].female_athletes >= 1
    /\ team_stats_df[1].female_athletes < team_stats_df[1].total_athletes
    /\ \E i \in SummerRows : df[i].team # team_stats_df[1].team

====
